---------------------------- MODULE Spec2Model ----------------------------
(***************************************************************************)
(* A model of axum_mini's html_minifier middleware (src/src/lib.rs).       *)
(*                                                                         *)
(* One request is one run of the async fn html_minifier: it awaits the     *)
(* downstream handler, drains the response body frame by frame, classifies *)
(* the Content-Type header, minifies or passes the bytes through and       *)
(* rebuilds the response from the original parts.  Header values and body  *)
(* bytes are sequences of byte values (0..255).                            *)
(***************************************************************************)
EXTENDS Integers, Sequences, FiniteSets, TLC

(***************************************************************************)
(* Bounds of the model.                                                    *)
(***************************************************************************)
\* Most frames a downstream body yields before it ends or fails.
MaxFrames == 2
\* Most Content-Type values a downstream response carries.
MaxContentTypes == 2
\* Requests in flight at once in SpecIso.
NumRequests == 2

(***************************************************************************)
(* Program constants.                                                      *)
(***************************************************************************)
\* StatusCode::INTERNAL_SERVER_ERROR
INTERNAL_SERVER_ERROR == 500

\* The header name looked up, "content-type".
CONTENT_TYPE == "content-type"
CONTENT_LENGTH == "content-length"

\* The marker searched for in the header value: the bytes of "text/html".
TextHtmlMarker == <<116, 101, 120, 116, 47, 104, 116, 109, 108>>

\* The prefix of the diagnostic built by response_buffer.
ReadErrorPrefix == "failed to read response body: "

(***************************************************************************)
(* The inputs: what a downstream handler can answer.                       *)
(***************************************************************************)
\* "text/html; charset=utf-8"
HtmlUtf8 ==
    <<116, 101, 120, 116, 47, 104, 116, 109, 108, 59, 32,
      99, 104, 97, 114, 115, 101, 116, 61, 117, 116, 102, 45, 56>>
\* "application/json"
AppJson ==
    <<97, 112, 112, 108, 105, 99, 97, 116, 105, 111, 110, 47, 106, 115, 111, 110>>
\* "Text/HTML"
UpperHtml == <<84, 101, 120, 116, 47, 72, 84, 77, 76>>
\* "text/html" followed by the obs-text byte 0xFF: a legal header value that
\* is not visible ASCII.
HtmlObsText == TextHtmlMarker \o <<255>>

ContentTypeValues == {HtmlUtf8, AppJson, UpperHtml, HtmlObsText}

\* Body bytes used: '<' (60), ' ' (32), 'a' (97).
DataChunks == {<< >>, <<60, 32>>, <<97>>}

\* A frame of a body is a data chunk or a trailers frame.
Frames ==
    [kind : {"data"}, data : DataChunks] \cup {[kind |-> "trailers", data |-> << >>]}

\* The Display texts of a body error.
ErrorTexts == {"", "connection reset"}

StatusCodes == {200, 404}

SeqsUpTo(S, n) == UNION {[1..k -> S] : k \in 0..n}

RECURSIVE Digits(_)
\* The decimal digits of n, as bytes.
Digits(n) == IF n < 10 THEN <<48 + n>> ELSE Digits(n \div 10) \o <<48 + (n % 10)>>

RECURSIVE DataLength(_)
\* The number of data bytes a sequence of frames carries.
DataLength(frames) ==
    IF frames = << >> THEN 0
    ELSE (IF Head(frames).kind = "data" THEN Len(Head(frames).data) ELSE 0)
         + DataLength(Tail(frames))

\* The header list of a downstream response: its Content-Type values in order,
\* then a Content-Length when the handler set one.
HeaderList(cts, frames, withLength) ==
    [i \in 1..Len(cts) |-> [name |-> CONTENT_TYPE, value |-> cts[i]]]
    \o (IF withLength
        THEN <<[name |-> CONTENT_LENGTH, value |-> Digits(DataLength(frames))]>>
        ELSE << >>)

\* A body either ends after its frames (error = <<>>) or fails after them
\* with an error whose Display text is error[1].
BodyErrors == {<< >>} \cup {<<t>> : t \in ErrorTexts}

Responses ==
    { [status |-> s, headers |-> HeaderList(c, f, l), frames |-> f, error |-> e] :
        s \in StatusCodes, c \in SeqsUpTo(ContentTypeValues, MaxContentTypes),
        f \in SeqsUpTo(Frames, MaxFrames), l \in BOOLEAN, e \in BodyErrors }

\* The handlers of the concurrent runs: an HTML page sent in MaxFrames chunks,
\* a JSON document sent in two chunks, an HTML page whose body fails.
DataFrame(d) == [kind |-> "data", data |-> d]
HtmlPageFrames == [i \in 1..MaxFrames |-> DataFrame(<<60, 32>>)]
JsonFrames == <<DataFrame(<<97>>), DataFrame(<<60, 32>>)>>
BrokenFrames == <<DataFrame(<<97>>)>>
IsoResponses ==
    { [status |-> 200, headers |-> HeaderList(<<HtmlUtf8>>, HtmlPageFrames, TRUE),
       frames |-> HtmlPageFrames, error |-> << >>],
      [status |-> 404, headers |-> HeaderList(<<AppJson>>, JsonFrames, FALSE),
       frames |-> JsonFrames, error |-> << >>],
      [status |-> 200, headers |-> HeaderList(<<HtmlUtf8>>, BrokenFrames, FALSE),
       frames |-> BrokenFrames, error |-> <<"connection reset">>] }

\* The external transform is opaque: the bodies it faults on are unknown.  It
\* faults on every body holding a byte of `faulty`.
FaultClasses == {{}, {60}, {97}}

(***************************************************************************)
(* The state.                                                              *)
(***************************************************************************)
VARIABLES
    downstream,      \* per request: the response its downstream handler gives
    faulty,          \* the bytes the external transform faults on
    pc,              \* per request: where html_minifier stands
    calls,           \* per request: times next.run was called
    parts,           \* per request: the response head from into_parts
    stream,          \* per request: the frames the body has yet to yield
    collected,       \* per request: the data collected so far
    response_bytes,  \* per request: the buffered body
    is_html,         \* per request: the classification
    minify_calls,    \* per request: times minify was called
    final_body,      \* per request: the bytes of the new body
    result           \* per request: what html_minifier returned

vars == <<downstream, faulty, pc, calls, parts, stream, collected,
          response_bytes, is_html, minify_calls, final_body, result>>

Requests == DOMAIN downstream

NoParts == [status |-> 0, headers |-> << >>]
NoResult == [kind |-> "none"]

(***************************************************************************)
(* The pure parts of the code.                                             *)
(***************************************************************************)
\* A lookup that yields the last value stored under the name.
HeaderGetLast(headers, name) ==
    LET idx == {i \in 1..Len(headers) : headers[i].name = name}
    IN  IF idx = {} THEN << >>
        ELSE <<headers[CHOOSE i \in idx : \A j \in idx : j <= i].value>>

\* HeaderMap::get: the first value stored under the name, if any (a sequence
\* of at most one value).
HeaderGet(headers, name) ==
    LET idx == {i \in 1..Len(headers) : headers[i].name = name}
    IN  IF idx = {} THEN << >>
        ELSE <<headers[CHOOSE i \in idx : \A j \in idx : i <= j].value>>

\* A lossy decoding, which never fails.
ToStrLossy(value) == TRUE

\* HeaderValue::to_str succeeds on visible ASCII (and tab) only.
ToStrOk(value) ==
    \A i \in 1..Len(value) : value[i] = 9 \/ (value[i] >= 32 /\ value[i] < 127)

\* A containment test that ignores ASCII case.
ContainsIgnoreCase(hay, needle) ==
    LET lower(b) == IF b >= 65 /\ b <= 90 THEN b + 32 ELSE b
    IN  \E i \in 1..(Len(hay) - Len(needle) + 1) :
            \A k \in 1..Len(needle) : lower(hay[i + k - 1]) = lower(needle[k])

\* str::contains: the needle occurs as a contiguous run of the haystack.
Contains(hay, needle) ==
    \E i \in 1..(Len(hay) - Len(needle) + 1) :
        SubSeq(hay, i, i + Len(needle) - 1) = needle

\* The is_html expression: get, and_then(to_str().ok()), map(contains),
\* unwrap_or(false).
IsHtml(headers) ==
    LET got == HeaderGet(headers, CONTENT_TYPE)
    IN  IF got = << >> THEN FALSE
        ELSE IF ~ToStrOk(got[1]) THEN FALSE
        ELSE Contains(got[1], TextHtmlMarker)

\* A push that puts the new bytes first.
PushFramePrepend(buf, frame) ==
    IF frame.kind = "data" THEN frame.data \o buf ELSE buf

\* A push that keeps only the newest chunk.
PushFrameLast(buf, frame) ==
    IF frame.kind = "data" THEN frame.data ELSE buf

\* Collected::push_frame: a data frame's bytes go after those already held;
\* any other frame adds no bytes.
PushFrame(buf, frame) ==
    IF frame.kind = "data" THEN buf \o frame.data ELSE buf

\* A collecting into one buffer shared by every request.
CollectIntoShared(bufs, r, frame) ==
    [q \in DOMAIN bufs |-> PushFrame(bufs[q], frame)]

\* The collecting of one frame of request r: each request owns its buffer.
CollectInto(bufs, r, frame) ==
    [bufs EXCEPT ![r] = PushFrame(@, frame)]

\* minify(&response_bytes, &cfg): the external transform, abstracted as a
\* deterministic rewriting that is not the identity: it drops space bytes.
Minify(bytes) == SelectSeq(bytes, LAMBDA b : b # 32)

\* Whether the external transform faults (panics) on these bytes.
MinifyFaults(bytes) == \E i \in 1..Len(bytes) : bytes[i] \in faulty

\* An error that keeps the downstream status.
ReadErrorKeepStatus(head, text) ==
    [kind |-> "Err", status |-> head.status, message |-> ReadErrorPrefix \o text]

\* The error of response_buffer, format!("failed to read response body: {err}"),
\* mapped by html_minifier's map_err to (INTERNAL_SERVER_ERROR, e).
ReadError(head, text) ==
    [kind |-> "Err", status |-> INTERNAL_SERVER_ERROR,
     message |-> ReadErrorPrefix \o text]

\* A rebuilding that recomputes Content-Length.
FromPartsFixLength(head, body) ==
    [kind |-> "Ok", status |-> head.status,
     headers |-> [i \in 1..Len(head.headers) |->
                    IF head.headers[i].name = CONTENT_LENGTH
                    THEN [name |-> CONTENT_LENGTH, value |-> Digits(Len(body))]
                    ELSE head.headers[i]],
     body |-> body]

\* Response::from_parts(parts, Body::from(final_body)).
FromParts(head, body) ==
    [kind |-> "Ok", status |-> head.status, headers |-> head.headers, body |-> body]

(***************************************************************************)
(* Init.                                                                   *)
(***************************************************************************)
InitRun ==
    /\ faulty \in FaultClasses
    /\ pc = [r \in Requests |-> "Start"]
    /\ calls = [r \in Requests |-> 0]
    /\ parts = [r \in Requests |-> NoParts]
    /\ stream = [r \in Requests |-> << >>]
    /\ collected = [r \in Requests |-> << >>]
    /\ response_bytes = [r \in Requests |-> << >>]
    /\ is_html = [r \in Requests |-> FALSE]
    /\ minify_calls = [r \in Requests |-> 0]
    /\ final_body = [r \in Requests |-> << >>]
    /\ result = [r \in Requests |-> NoResult]

\* One request, any downstream response.
Init ==
    /\ downstream \in [{1} -> Responses]
    /\ InitRun

\* NumRequests requests running at once.
InitIso ==
    /\ downstream \in [1..NumRequests -> IsoResponses]
    /\ InitRun

(***************************************************************************)
(* The steps of html_minifier for request r.                               *)
(***************************************************************************)
\* next.run(req).await.into_parts()
InvokeDownstream(r) ==
    /\ pc[r] = "Start"
    /\ calls' = [calls EXCEPT ![r] = @ + 1]
    /\ parts' = [parts EXCEPT ![r] =
                    [status |-> downstream[r].status, headers |-> downstream[r].headers]]
    /\ stream' = [stream EXCEPT ![r] = downstream[r].frames]
    /\ pc' = [pc EXCEPT ![r] = "DownstreamInvoked"]
    /\ UNCHANGED <<downstream, faulty, collected, response_bytes, is_html,
                   minify_calls, final_body, result>>

\* body.collect().await: one frame arrives and is collected.
PollFrame(r) ==
    /\ pc[r] = "DownstreamInvoked"
    /\ stream[r] # << >>
    /\ collected' = CollectInto(collected, r, Head(stream[r]))
    /\ stream' = [stream EXCEPT ![r] = Tail(@)]
    /\ UNCHANGED <<downstream, faulty, pc, calls, parts, response_bytes, is_html,
                   minify_calls, final_body, result>>

\* The body ended: Ok(collected) => collected.to_bytes(), Ok(bytes).
CollectOk(r) ==
    /\ pc[r] = "DownstreamInvoked"
    /\ stream[r] = << >>
    /\ downstream[r].error = << >>
    /\ response_bytes' = [response_bytes EXCEPT ![r] = collected[r]]
    /\ pc' = [pc EXCEPT ![r] = "BodyBuffered"]
    /\ UNCHANGED <<downstream, faulty, calls, parts, stream, collected, is_html,
                   minify_calls, final_body, result>>

\* A failure handling that calls the downstream handler again.
CollectErrRetry(r) ==
    /\ pc[r] = "DownstreamInvoked"
    /\ stream[r] = << >>
    /\ downstream[r].error # << >>
    /\ calls[r] < 2
    /\ collected' = [collected EXCEPT ![r] = << >>]
    /\ pc' = [pc EXCEPT ![r] = "Start"]
    /\ UNCHANGED <<downstream, faulty, calls, parts, stream, response_bytes, is_html,
                   minify_calls, final_body, result>>

\* The body failed: Err(format!(..)), mapped to (500, message) and returned by `?`.
CollectErr(r) ==
    /\ pc[r] = "DownstreamInvoked"
    /\ stream[r] = << >>
    /\ downstream[r].error # << >>
    /\ result' = [result EXCEPT ![r] = ReadError(parts[r], downstream[r].error[1])]
    /\ pc' = [pc EXCEPT ![r] = "Failed"]
    /\ UNCHANGED <<downstream, faulty, calls, parts, stream, collected,
                   response_bytes, is_html, minify_calls, final_body>>

\* let is_html = ...
Classify(r) ==
    /\ pc[r] = "BodyBuffered"
    /\ is_html' = [is_html EXCEPT ![r] = IsHtml(parts[r].headers)]
    /\ pc' = [pc EXCEPT ![r] = "Classified"]
    /\ UNCHANGED <<downstream, faulty, calls, parts, stream, collected,
                   response_bytes, minify_calls, final_body, result>>

\* if is_html { ... Bytes::from(minify(&response_bytes, &cfg)) }: the call is
\* not shielded, so a fault of the transform unwinds out of html_minifier.
Transform(r) ==
    /\ pc[r] = "Classified"
    /\ is_html[r]
    /\ minify_calls' = [minify_calls EXCEPT ![r] = @ + 1]
    /\ IF MinifyFaults(response_bytes[r])
       THEN /\ pc' = [pc EXCEPT ![r] = "Panicked"]
            /\ UNCHANGED final_body
       ELSE /\ pc' = [pc EXCEPT ![r] = "Transformed"]
            /\ final_body' = [final_body EXCEPT ![r] = Minify(response_bytes[r])]
    /\ UNCHANGED <<downstream, faulty, calls, parts, stream, collected,
                   response_bytes, is_html, result>>

\* else { response_bytes }
Passthrough(r) ==
    /\ pc[r] = "Classified"
    /\ ~is_html[r]
    /\ final_body' = [final_body EXCEPT ![r] = response_bytes[r]]
    /\ pc' = [pc EXCEPT ![r] = "Passthrough"]
    /\ UNCHANGED <<downstream, faulty, calls, parts, stream, collected,
                   response_bytes, is_html, minify_calls, result>>

\* let response = Response::from_parts(..); Ok(response)
Reconstruct(r) ==
    /\ pc[r] \in {"Transformed", "Passthrough"}
    /\ result' = [result EXCEPT ![r] = FromParts(parts[r], final_body[r])]
    /\ pc' = [pc EXCEPT ![r] = "Reconstructed"]
    /\ UNCHANGED <<downstream, faulty, calls, parts, stream, collected,
                   response_bytes, is_html, minify_calls, final_body>>

Next ==
    \/ \E r \in Requests : InvokeDownstream(r)
    \/ \E r \in Requests : PollFrame(r)
    \/ \E r \in Requests : CollectOk(r)
    \/ \E r \in Requests : CollectErr(r)
    \/ \E r \in Requests : Classify(r)
    \/ \E r \in Requests : Transform(r)
    \/ \E r \in Requests : Passthrough(r)
    \/ \E r \in Requests : Reconstruct(r)

Spec == Init /\ [][Next]_vars

SpecIso == InitIso /\ [][Next]_vars

(***************************************************************************)
(* What the claims speak of, stated on the downstream response itself.     *)
(***************************************************************************)
\* The Content-Type values of a response, in order.
ContentTypesOf(resp) ==
    LET hs == SelectSeq(resp.headers, LAMBDA h : h.name = CONTENT_TYPE)
    IN  [i \in 1..Len(hs) |-> hs[i].value]

\* The value is text: every byte is a tab or a printable ASCII character.
DecodesAsText(value) == {value[i] : i \in 1..Len(value)} \subseteq ({9} \cup (32..126))

\* The value holds the bytes of "text/html", case-sensitively.
HasMarker(value) ==
    \E i \in 1..Len(value), j \in 1..Len(value) : SubSeq(value, i, j) = TextHtmlMarker

RECURSIVE ConcatData(_)
\* The data chunks of a sequence of frames, concatenated in arrival order.
ConcatData(frames) ==
    IF frames = << >> THEN << >>
    ELSE LET rest == ConcatData(SubSeq(frames, 1, Len(frames) - 1))
             last == frames[Len(frames)]
         IN  IF last.kind = "data" THEN rest \o last.data ELSE rest

\* The frames of request r's body that have been polled so far.
Polled(r) ==
    IF pc[r] = "Start" THEN << >>
    ELSE SubSeq(downstream[r].frames, 1, Len(downstream[r].frames) - Len(stream[r]))

BodyFails(r) == downstream[r].error # << >>

AfterClassification == {"Transformed", "Passthrough", "Panicked", "Reconstructed"}

\* C1: a response none of whose Content-Type values contains text/html comes
\* back with the downstream body bytes, status and headers, and is never
\* handed to the transform.
C1_PassthroughInvariance ==
    \A r \in Requests :
        (\A i \in 1..Len(ContentTypesOf(downstream[r])) :
             ~HasMarker(ContentTypesOf(downstream[r])[i]))
        => /\ minify_calls[r] = 0
           /\ pc[r] \notin {"Transformed", "Panicked"}
           /\ pc[r] = "Reconstructed"
              => result[r] = [kind |-> "Ok",
                              status |-> downstream[r].status,
                              headers |-> downstream[r].headers,
                              body |-> ConcatData(downstream[r].frames)]

\* A Text/HTML response whose body holds a space came back.
C1_Witness ==
    \E r \in Requests :
        /\ pc[r] = "Reconstructed"
        /\ ContentTypesOf(downstream[r]) = <<UpperHtml>>
        /\ 32 \in {result[r].body[i] : i \in 1..Len(result[r].body)}

\* C2: when draining the body fails, whatever the Content-Type, the run ends
\* in an error of status 500 with a non-empty diagnostic and none of the
\* original status or headers; the transform is never called and the
\* downstream handler is called once only.
C2_BodyReadFailure ==
    \A r \in Requests :
        BodyFails(r)
        => /\ pc[r] \in {"Start", "DownstreamInvoked", "Failed"}
           /\ minify_calls[r] = 0
           /\ calls[r] <= 1
           /\ (pc[r] = "DownstreamInvoked" /\ stream[r] = << >>)
              => (ENABLED CollectErr(r) /\ ~ENABLED CollectOk(r))
           /\ pc[r] = "Failed"
              => /\ DOMAIN result[r] = {"kind", "status", "message"}
                 /\ result[r].kind = "Err"
                 /\ result[r].status = 500
                 /\ Len(result[r].message) > 0
                 /\ calls[r] = 1

\* An HTML response of status 404 failed after some data had arrived, with an
\* error whose text is empty.
C2_Witness ==
    \E r \in Requests :
        /\ pc[r] = "Failed"
        /\ downstream[r].status = 404
        /\ ContentTypesOf(downstream[r]) = <<HtmlUtf8>>
        /\ collected[r] # << >>
        /\ downstream[r].error = <<"">>

\* C3: a fault of the transform ends in a 500 error response and never
\* escapes html_minifier.
C3_TransformFailureContained ==
    \A r \in Requests :
        /\ pc[r] # "Panicked"
        /\ (minify_calls[r] > 0 /\ MinifyFaults(response_bytes[r]))
           => (result[r].kind = "Err" /\ result[r].status = 500)

\* C4: the transform is called if and only if the response has a Content-Type
\* header whose value (the one the lookup yields) decodes as text and holds
\* text/html; a missing header, an undecodable value, application/json and
\* Text/HTML are never transformed.
C4_FailSafeClassification ==
    \A r \in Requests :
        LET cts == ContentTypesOf(downstream[r])
            marked == /\ cts # << >>
                      /\ DecodesAsText(cts[1])
                      /\ HasMarker(cts[1])
        IN  /\ minify_calls[r] > 0 => marked
            /\ pc[r] \in AfterClassification => (minify_calls[r] = 1 <=> marked)
            /\ (cts = << >> \/ (Len(cts) = 1 /\ cts[1] \in {HtmlObsText, AppJson, UpperHtml}))
               => minify_calls[r] = 0

\* The transform was called for text/html; charset=utf-8.
C4_Witness ==
    \E r \in Requests :
        /\ minify_calls[r] = 1
        /\ ContentTypesOf(downstream[r]) = <<HtmlUtf8>>
        /\ pc[r] = "Reconstructed"

\* C5, as stated: a response with more than one Content-Type value is never
\* transformed and its body comes back unchanged.
C5_MultiValuedNotHtml ==
    \A r \in Requests :
        Len(ContentTypesOf(downstream[r])) > 1
        => /\ minify_calls[r] = 0
           /\ pc[r] = "Reconstructed"
              => result[r].body = ConcatData(downstream[r].frames)

\* C5, amended: a response with more than one Content-Type value is
\* classified by the first value alone: it is transformed exactly when that
\* value decodes as text and holds text/html, and comes back unchanged
\* otherwise, whatever the later values hold.
C5_FirstValueDecides ==
    \A r \in Requests :
        LET cts == ContentTypesOf(downstream[r])
        IN  Len(cts) > 1
            => LET marked == DecodesAsText(cts[1]) /\ HasMarker(cts[1])
               IN  /\ minify_calls[r] > 0 => marked
                   /\ pc[r] \in AfterClassification
                      => (minify_calls[r] = 1 <=> marked)
                   /\ pc[r] = "Reconstructed"
                      => result[r].body =
                            IF marked THEN Minify(ConcatData(downstream[r].frames))
                            ELSE ConcatData(downstream[r].frames)

\* A response with the values text/html; charset=utf-8 and application/json,
\* in that order, came back with a body that differs from the downstream one.
C5_Witness ==
    \E r \in Requests :
        /\ pc[r] = "Reconstructed"
        /\ ContentTypesOf(downstream[r]) = <<HtmlUtf8, AppJson>>
        /\ result[r].body # ConcatData(downstream[r].frames)

\* C6: every response that is rebuilt carries the downstream status and the
\* downstream headers, none added, removed or rewritten, a Content-Length
\* included.
C6_StatusAndHeadersKept ==
    \A r \in Requests :
        pc[r] = "Reconstructed"
        => /\ result[r].kind = "Ok"
           /\ result[r].status = downstream[r].status
           /\ result[r].headers = downstream[r].headers

\* A minified response came back shorter than its Content-Length says.
C6_Witness ==
    \E r \in Requests :
        /\ pc[r] = "Reconstructed"
        /\ minify_calls[r] = 1
        /\ \E i \in 1..Len(result[r].headers) :
              /\ result[r].headers[i].name = CONTENT_LENGTH
              /\ result[r].headers[i].value # Digits(Len(result[r].body))

\* C7: whatever html_minifier returns is the whole downstream body with the
\* original status and headers, or the transform's output on the whole
\* downstream body with the original status and headers, or a 500 error; a
\* run that returned nothing carries no response.
C7_NoPartialResponses ==
    \A r \in Requests :
        LET whole == ConcatData(downstream[r].frames)
            original == [kind |-> "Ok", status |-> downstream[r].status,
                         headers |-> downstream[r].headers, body |-> whole]
            minified == [kind |-> "Ok", status |-> downstream[r].status,
                         headers |-> downstream[r].headers, body |-> Minify(whole)]
        IN  /\ (result[r] # NoResult) <=> (pc[r] \in {"Reconstructed", "Failed"})
            /\ result[r] # NoResult
               => \/ result[r] = original /\ minify_calls[r] = 0 /\ ~BodyFails(r)
                  \/ result[r] = minified /\ minify_calls[r] = 1 /\ ~BodyFails(r)
                  \/ /\ result[r].kind = "Err"
                     /\ result[r].status = 500
                     /\ Len(result[r].message) > 0
                     /\ BodyFails(r)

\* A body of two non-empty chunks came back minified.
C7_Witness ==
    \E r \in Requests :
        /\ pc[r] = "Reconstructed"
        /\ minify_calls[r] = 1
        /\ Len(downstream[r].frames) = 2
        /\ \A i \in 1..2 : downstream[r].frames[i].data # << >>
        /\ result[r].body # ConcatData(downstream[r].frames)

\* The steps a run may take from one place to the next.
LinearOrder ==
    { <<"Start", "DownstreamInvoked">>,
      <<"DownstreamInvoked", "BodyBuffered">>,
      <<"DownstreamInvoked", "Failed">>,
      <<"BodyBuffered", "Classified">>,
      <<"Classified", "Transformed">>,
      <<"Classified", "Passthrough">>,
      <<"Classified", "Panicked">>,
      <<"Transformed", "Reconstructed">>,
      <<"Passthrough", "Reconstructed">> }

\* C8: a run moves only forward along Start, DownstreamInvoked, BodyBuffered,
\* Classified, Transformed or Passthrough, Reconstructed; the downstream
\* handler is called exactly once, the body is whole before the Content-Type
\* is classified, and the transform runs at most once, after classification.
C8_LinearProcessing ==
    /\ [](\A r \in Requests :
            /\ calls[r] = (IF pc[r] = "Start" THEN 0 ELSE 1)
            /\ minify_calls[r] <= 1
            /\ minify_calls[r] = 1 => pc[r] \in {"Transformed", "Panicked", "Reconstructed"}
            /\ pc[r] \in ({"BodyBuffered", "Classified"} \cup AfterClassification)
               => /\ stream[r] = << >>
                  /\ response_bytes[r] = ConcatData(downstream[r].frames))
    /\ [][\A r \in Requests :
            /\ pc'[r] # pc[r] => <<pc[r], pc'[r]>> \in LinearOrder
            /\ calls'[r] >= calls[r]
            /\ minify_calls'[r] >= minify_calls[r]
            /\ minify_calls'[r] > minify_calls[r] => pc[r] = "Classified"
            /\ calls'[r] > calls[r] => pc[r] = "Start"]_vars

\* A run went through the transform to the end.
C8_Witness ==
    \E r \in Requests :
        /\ pc[r] = "Reconstructed"
        /\ minify_calls[r] = 1
        /\ calls[r] = 1
        /\ downstream[r].frames # << >>

\* C9: what is buffered is the concatenation, in arrival order, of the data
\* chunks polled so far, and of all of them once the body has ended; a body
\* fails to buffer only if its stream fails, so a body of no bytes buffers to
\* the empty sequence.
C9_BufferIsConcatenation ==
    \A r \in Requests :
        /\ collected[r] = ConcatData(Polled(r))
        /\ pc[r] \in ({"BodyBuffered", "Classified"} \cup AfterClassification)
           => response_bytes[r] = ConcatData(downstream[r].frames)
        /\ pc[r] = "Failed" => BodyFails(r)
        /\ (pc[r] = "DownstreamInvoked" /\ stream[r] = << >> /\ ~BodyFails(r))
           => ENABLED CollectOk(r)

\* A body of two different non-empty chunks was buffered.
C9_Witness ==
    \E r \in Requests :
        /\ pc[r] = "BodyBuffered"
        /\ Len(downstream[r].frames) = 2
        /\ downstream[r].frames[1].data # << >>
        /\ downstream[r].frames[2].data # << >>
        /\ downstream[r].frames[1].data # downstream[r].frames[2].data

\* What one run of html_minifier comes to for a downstream response, taken
\* alone: where it ends and what it returns.
OutcomeOf(resp) ==
    LET whole == ConcatData(resp.frames)
        head == [status |-> resp.status, headers |-> resp.headers]
    IN  IF resp.error # << >>
        THEN <<"Failed", ReadError(head, resp.error[1])>>
        ELSE IF ~IsHtml(resp.headers)
        THEN <<"Reconstructed", FromParts(head, whole)>>
        ELSE IF MinifyFaults(whole)
        THEN <<"Panicked", NoResult>>
        ELSE <<"Reconstructed", FromParts(head, Minify(whole))>>

\* C10: with several runs interleaved, each run's buffer holds its own
\* polled chunks only, its classification is that of its own headers, and
\* its end is the outcome of its own downstream response taken alone.
C10_RequestIsolation ==
    \A r \in Requests :
        /\ collected[r] = ConcatData(Polled(r))
        /\ pc[r] \in AfterClassification => is_html[r] = IsHtml(downstream[r].headers)
        /\ pc[r] \in {"Reconstructed", "Failed", "Panicked"}
           => <<pc[r], result[r]>> = OutcomeOf(downstream[r])
        /\ pc[r] \notin {"Reconstructed", "Failed"} => result[r] = NoResult

\* One run came back minified while another, of a different downstream
\* response, is in the middle of draining its body.
C10_Witness ==
    \E r, q \in Requests :
        /\ r # q
        /\ downstream[r] # downstream[q]
        /\ pc[r] = "Reconstructed"
        /\ minify_calls[r] = 1
        /\ pc[q] = "DownstreamInvoked"
        /\ collected[q] # << >>
        /\ stream[q] # << >>

=============================================================================
